---- MODULE Spec2Model ----
(***************************************************************************)
(* A model of the go-merkle sparse Merkle tree code.                       *)
(*                                                                         *)
(*  - the level-materializing builder (NewSMT / Generate / RootHash /      *)
(*    GetMerkleProof and their helpers), specification Spec;               *)
(*  - the recursive root-only builder of smt.go (GenerateByTwoHashFunc /   *)
(*    GenerateSMT / ComputeEmptyLeavesSubTreeHash), specification SpecRec; *)
(*  - two Generate calls racing on one instance of the materializing       *)
(*    builder, statement by statement, specification SpecConc.             *)
(*                                                                         *)
(* Byte sequences are sequences of atoms.  A data byte is the atom         *)
(* <<"b", n>>.  The digest a hash capability f returns for the written     *)
(* bytes s is a one-atom sequence << <<"h", f, s>> >>: a collision-free    *)
(* hash, whose input is the concatenation of everything written.           *)
(***************************************************************************)
EXTENDS Integers, Sequences, FiniteSets, TLC

(***************************************************************************)
(* Bounds of the model.                                                    *)
(***************************************************************************)
\* Generate is tried with every totalSize in 0..MaxTotalSize.
MaxTotalSize == 8
\* Generate is tried with every batch of at most MaxLeaves leaves.
MaxLeaves == 4
\* The injected hash capability fails at its failAt-th use of a call,
\* failAt in 1..MaxFailAt, or not at all (failAt = 0).
MaxFailAt == 3
\* The capability fails in at most MaxHashFailures calls on one instance.
MaxHashFailures == 1

(***************************************************************************)
(* Bytes, digests and the values a call returns.                           *)
(***************************************************************************)
Byte(n) == <<"b", n>>

\* hash.Hash: Write(s) ... Sum(nil), for the capability named f.
Digest(f, s) == << <<"h", f, s>> >>

\* Go's nil slice, and a run-time panic (index out of range).
NilBytes == << <<"nil">> >>
Panic == << <<"panic">> >>

\* The one capability handed to NewSMT.
HashFunc == "nh"

NilErr == "nil"
ErrFilled == "SMT tree already filled"
ErrNotPowerOfTwo == "Leaves number of SMT tree should be power of 2"
ErrTooManyLeaves == "NonEmptyLeaves is bigger than totalSize"
ErrNotFilled == "SMT tree is not filled"
\* the error an injected hash.Hash returns from a failing Write
ErrHash == "hash write failed"
\* the outcome of a call that ended in a run-time panic
ErrPanic == "panic: index out of range"

(***************************************************************************)
(* Helpers of the package that both builders call.                         *)
(***************************************************************************)
RECURSIVE isPowerOfTwo(_)
isPowerOfTwo(n) ==
    IF n <= 0 THEN FALSE
    ELSE IF n = 1 THEN TRUE
    ELSE n % 2 = 0 /\ isPowerOfTwo(n \div 2)

\* floor(log2(x)), 0 for x = 0
RECURSIVE logBaseTwo(_)
logBaseTwo(x) == IF x <= 1 THEN 0 ELSE 1 + logBaseTwo(x \div 2)

(***************************************************************************)
(* The level-materializing builder.                                        *)
(***************************************************************************)
NewSMT(eh) ==
    [fullNodes |-> <<>>, emptyTreeRootHash |-> <<eh>>, emptyHash |-> eh,
     treeHeight |-> 0, countOfNonEmptyLeaves |-> 0]

\* parentHash: Write(item1), Write(item2), Sum.  n numbers this use of the
\* capability within the running call; the use numbered failAt fails.
parentHash(item1, item2, n, failAt) ==
    IF n = failAt
    THEN [hash |-> <<>>, err |-> ErrHash]
    ELSE [hash |-> Digest(HashFunc, item1 \o item2), err |-> NilErr]

\* for i := 1; i < maxHeight; i++ { ... append(self.emptyTreeRootHash, ...) }
RECURSIVE emptyLoop(_, _, _, _, _, _)
emptyLoop(self, lastLevelHash, i, maxHeight, calls, failAt) ==
    IF i >= maxHeight
    THEN [self |-> self, err |-> NilErr, calls |-> calls]
    ELSE LET h == parentHash(lastLevelHash, lastLevelHash, calls + 1, failAt)
         IN  IF h.err # NilErr
             THEN [self |-> self, err |-> h.err, calls |-> calls + 1]
             ELSE emptyLoop(
                    [self EXCEPT !.emptyTreeRootHash = Append(@, h.hash)],
                    h.hash, i + 1, maxHeight, calls + 1, failAt)

computeEmptyLeavesSubTreeHashMutInclusive(self, maxHeight, calls, failAt) ==
    emptyLoop(self, self.emptyHash, 0, maxHeight, calls, failAt)

computeEmptyLeavesSubTreeHash(self, maxHeight, calls, failAt) ==
    emptyLoop(self, self.emptyHash, 1, maxHeight, calls, failAt)

\* for i := 0; i < countRoundToEven; i += 2 { hashes = append(hashes, ...) }
RECURSIVE pairLoop(_, _, _, _, _, _)
pairLoop(nodes, i, countRoundToEven, hashes, calls, failAt) ==
    IF i >= countRoundToEven
    THEN [hashes |-> hashes, err |-> NilErr, calls |-> calls]
    ELSE LET h == parentHash(nodes[i + 1], nodes[i + 2], calls + 1, failAt)
         IN  IF h.err # NilErr
             THEN [hashes |-> hashes, err |-> h.err, calls |-> calls + 1]
             ELSE pairLoop(nodes, i + 2, countRoundToEven,
                           Append(hashes, h.hash), calls + 1, failAt)

\* the operand paired with the last node of an odd level
siblingEmptyTreeHashMutLeaf(self, level) == self.emptyHash

siblingEmptyTreeHash(self, level) ==
    self.emptyTreeRootHash[(self.treeHeight - 1 - level) + 1]

computeNodesAt(self, level, calls, failAt) ==
    LET lastLevelNodesHash == self.fullNodes[(self.treeHeight - 1 - level) + 1]
        count == Len(lastLevelNodesHash)
        countRoundToEven == (count \div 2) * 2
        p == pairLoop(lastLevelNodesHash, 0, countRoundToEven, <<>>, calls, failAt)
    IN  IF p.err # NilErr
        THEN [self |-> self, err |-> p.err, calls |-> p.calls]
        ELSE IF count % 2 # 0
        THEN LET h == parentHash(lastLevelNodesHash[count],
                                 siblingEmptyTreeHash(self, level),
                                 p.calls + 1, failAt)
             IN  IF h.err # NilErr
                 THEN [self |-> self, err |-> h.err, calls |-> p.calls + 1]
                 ELSE [self |-> [self EXCEPT !.fullNodes =
                                    Append(@, Append(p.hashes, h.hash))],
                       err |-> NilErr, calls |-> p.calls + 1]
        ELSE [self |-> [self EXCEPT !.fullNodes = Append(@, p.hashes)],
              err |-> NilErr, calls |-> p.calls]

\* for i := self.treeHeight; i > 1; i-- { computeNodesAt(i - 1) }
RECURSIVE levelLoop(_, _, _, _)
levelLoop(self, i, calls, failAt) ==
    IF i <= 1
    THEN [self |-> self, err |-> NilErr, calls |-> calls]
    ELSE LET r == computeNodesAt(self, i - 1, calls, failAt)
         IN  IF r.err # NilErr THEN r
             ELSE levelLoop(r.self, i - 1, r.calls, failAt)

computeAllLevelNodes(self, calls, failAt) ==
    levelLoop(self, self.treeHeight, calls, failAt)

\* for i := noOfEmtpyLeaves; i > 0; i = i >> 1 { maxEmtySubTreeHeight++ }
RECURSIVE maxEmtySubTreeHeight(_)
maxEmtySubTreeHeight(i) ==
    IF i > 0 THEN 1 + maxEmtySubTreeHeight(i \div 2) ELSE 0

alreadyFilledMutNever(self) == FALSE

\* len(self.fullNodes) != 0
alreadyFilled(self) == Len(self.fullNodes) # 0

tooManyLeavesMutNever(count, totalSize) == FALSE

\* count > totalSize
tooManyLeaves(count, totalSize) == count > totalSize

\* Generate(leaves, totalSize) with the capability failing at use failAt
Generate(self, leaves, totalSize, failAt) ==
    IF alreadyFilled(self)
    THEN [self |-> self, err |-> ErrFilled, calls |-> 0]
    ELSE IF ~isPowerOfTwo(totalSize)
    THEN [self |-> self, err |-> ErrNotPowerOfTwo, calls |-> 0]
    ELSE IF tooManyLeaves(Len(leaves), totalSize)
    THEN [self |-> self, err |-> ErrTooManyLeaves, calls |-> 0]
    ELSE LET s1 == [self EXCEPT !.treeHeight = logBaseTwo(totalSize) + 1,
                                !.countOfNonEmptyLeaves = Len(leaves)]
             noOfEmtpyLeaves == totalSize - Len(leaves)
             e == computeEmptyLeavesSubTreeHash(
                     s1, maxEmtySubTreeHeight(noOfEmtpyLeaves), 0, failAt)
         IN  IF e.err # NilErr THEN e
             ELSE computeAllLevelNodes(
                     [e.self EXCEPT !.fullNodes = Append(@, leaves)],
                     e.calls, failAt)

RootHash(self) ==
    IF Len(self.fullNodes) = 0 THEN NilBytes
    ELSE IF self.countOfNonEmptyLeaves = 0
    THEN self.emptyTreeRootHash[Len(self.emptyTreeRootHash)]
    ELSE IF self.treeHeight > Len(self.fullNodes)
            \/ Len(self.fullNodes[self.treeHeight]) = 0
    THEN Panic
    ELSE self.fullNodes[self.treeHeight][1]

ProofNode(hash, left) == [Hash |-> hash, Left |-> left]

\* what proofNodeAt yields when a slice index is outside its slice
PanicNode == ProofNode(Panic, FALSE)

proofNodeAtMutRight(self, index, level) ==
    LET lv == self.treeHeight - 1 - level
    IN  IF lv < 0 \/ lv >= Len(self.fullNodes) THEN PanicNode
        ELSE IF index + 1 < Len(self.fullNodes[lv + 1])
        THEN ProofNode(self.fullNodes[lv + 1][(index + 1) + 1], FALSE)
        ELSE IF lv >= Len(self.emptyTreeRootHash) THEN PanicNode
        ELSE ProofNode(self.emptyTreeRootHash[lv + 1], FALSE)

proofNodeAt(self, index, level) ==
    LET lv == self.treeHeight - 1 - level
        left == (index % 2 = 1)
    IN  IF lv < 0 \/ lv >= Len(self.fullNodes) THEN PanicNode
        ELSE LET hashes == self.fullNodes[lv + 1]
             IN  IF left
                 THEN IF index - 1 >= Len(hashes) THEN PanicNode
                      ELSE ProofNode(hashes[(index - 1) + 1], left)
                 ELSE IF Len(hashes) - 1 < index + 1
                      THEN IF lv >= Len(self.emptyTreeRootHash) THEN PanicNode
                           ELSE ProofNode(self.emptyTreeRootHash[lv + 1], left)
                      ELSE ProofNode(hashes[(index + 1) + 1], left)

\* for i := level; i > 0; i-- { proofs = append(proofs, ...); index = index / 2 }
RECURSIVE proofLoop(_, _, _, _)
proofLoop(self, index, i, proofs) ==
    IF i <= 0 THEN [proofs |-> proofs, err |-> NilErr]
    ELSE LET proofNode == proofNodeAt(self, index, i)
         IN  IF proofNode = PanicNode THEN [proofs |-> <<>>, err |-> ErrPanic]
             ELSE proofLoop(self, index \div 2, i - 1, Append(proofs, proofNode))

GetMerkleProof(self, leafNo) ==
    IF Len(self.fullNodes) = 0 THEN [proofs |-> <<>>, err |-> ErrNotFilled]
    ELSE proofLoop(self, leafNo, self.treeHeight - 1, <<>>)

(***************************************************************************)
(* The recursive root-only builder (smt.go).  t is the SMT struct's        *)
(* memoized fields; calls counts the uses of the two hash capabilities in  *)
(* the running call, and the use numbered failAt fails.  A result carries  *)
(* diverged = TRUE when the code calls itself on a range that is no        *)
(* shorter than its own, with nothing changed: that recursion never        *)
(* returns, and the Go run time ends the program on stack exhaustion.      *)
(***************************************************************************)
LeafHashFn == "lh"
NonLeafHashFn == "nh"

\* []byte{}, what the code returns beside an error
NoBytes == <<>>

NewRecSMT ==
    [EmptyLeafHash |-> NilBytes, CachedAllLevelsHashOfEmptyLeaves |-> <<>>,
     Root |-> NilBytes]

Res(t, hash, err, calls, diverged) ==
    [t |-> t, hash |-> hash, err |-> err, calls |-> calls, diverged |-> diverged]

emptyNodeHash(h, n, failAt) ==
    IF n = failAt THEN [hash |-> NoBytes, err |-> ErrHash]
    ELSE [hash |-> Digest(h, <<>>), err |-> NilErr]

computeHashByTwoItemsMutSwapped(item1, item2, hash, n, failAt) ==
    IF n = failAt THEN [hash |-> NoBytes, err |-> ErrHash]
    ELSE [hash |-> Digest(hash, item2 \o item1), err |-> NilErr]

computeHashByTwoItems(item1, item2, hash, n, failAt) ==
    IF n = failAt THEN [hash |-> NoBytes, err |-> ErrHash]
    ELSE [hash |-> Digest(hash, item1 \o item2), err |-> NilErr]

isEmptyBlockMutNever(item) == FALSE

\* bytes.Compare(item, []byte{}) == 0
isEmptyBlock(item) == item = <<>>

\* a Res from what a hash function returned
HashRes(t, h, calls) == Res(t, h.hash, h.err, calls, FALSE)

\* ... with the digest memoized in self.EmptyLeafHash when there is no error
memoEmptyLeafHash(t, h, calls) ==
    IF h.err # NilErr THEN Res(t, NoBytes, h.err, calls, FALSE)
    ELSE Res([t EXCEPT !.EmptyLeafHash = h.hash], h.hash, NilErr, calls, FALSE)

computeHashOfOneItem(t, item, hash, calls, failAt) ==
    IF isEmptyBlock(item)
    THEN IF t.EmptyLeafHash # NilBytes
         THEN Res(t, t.EmptyLeafHash, NilErr, calls, FALSE)
         ELSE memoEmptyLeafHash(t, emptyNodeHash(hash, calls + 1, failAt),
                                calls + 1)
    ELSE IF calls + 1 = failAt
         THEN Res(t, NoBytes, ErrHash, calls + 1, FALSE)
         ELSE Res(t, Digest(hash, item), NilErr, calls + 1, FALSE)

\* uint64(len(cache)) > logBaseTwo(leavesNumber) - 1, in uint64: for
\* logBaseTwo = 0 the subtraction wraps to 2^64 - 1, which no length exceeds
cacheHolds(cache, leavesNumber) ==
    logBaseTwo(leavesNumber) >= 1 /\ Len(cache) > logBaseTwo(leavesNumber) - 1

\* append(self.CachedAllLevelsHashOfEmptyLeaves, hash), whatever hash is
appendCached(t, hash, calls) ==
    Res([t EXCEPT !.CachedAllLevelsHashOfEmptyLeaves = Append(@, hash)],
        hash, NilErr, calls, FALSE)

\* leavesNumber = 2, first half: the empty leaf hash, memoized or computed
emptyPairFirst(t, calls, failAt) ==
    IF t.EmptyLeafHash # NilBytes /\ t.EmptyLeafHash # NoBytes
    THEN Res(t, t.EmptyLeafHash, NilErr, calls, FALSE)
    ELSE memoEmptyLeafHash(t, emptyNodeHash(LeafHashFn, calls + 1, failAt),
                           calls + 1)

\* the pair's hash: appended to the cache unless the hash function failed
emptyPairCombined(first, h) ==
    IF h.err # NilErr
    THEN Res(first.t, NoBytes, h.err, first.calls + 1, FALSE)
    ELSE appendCached(first.t, h.hash, first.calls + 1)

\* leavesNumber = 2, second half: the cached pair hash, or a computed one
emptyPairSecond(first, failAt) ==
    IF first.err # NilErr THEN first
    ELSE IF Len(first.t.CachedAllLevelsHashOfEmptyLeaves) > 0
    THEN Res(first.t, first.t.CachedAllLevelsHashOfEmptyLeaves[1], NilErr,
             first.calls, FALSE)
    ELSE emptyPairCombined(first,
            computeHashByTwoItems(first.hash, first.hash, NonLeafHashFn,
                                  first.calls + 1, failAt))

\* after the recursive call: its error is dropped, and the error of the
\* combination is not looked at
emptyAfterNext(next, failAt) ==
    IF next.diverged THEN next
    ELSE IF next.err # NilErr
    THEN Res(next.t, NoBytes, NilErr, next.calls, FALSE)
    ELSE appendCached(next.t,
            computeHashByTwoItems(next.hash, next.hash, NonLeafHashFn,
                                  next.calls + 1, failAt).hash,
            next.calls + 1)

RECURSIVE ComputeEmptyLeavesSubTreeHash(_, _, _, _)
ComputeEmptyLeavesSubTreeHash(t, leavesNumber, calls, failAt) ==
    IF leavesNumber = 2
    THEN emptyPairSecond(emptyPairFirst(t, calls, failAt), failAt)
    ELSE IF cacheHolds(t.CachedAllLevelsHashOfEmptyLeaves, leavesNumber)
    THEN Res(t, t.CachedAllLevelsHashOfEmptyLeaves[
                   (logBaseTwo(leavesNumber) - 1) + 1],
             NilErr, calls, FALSE)
    ELSE IF leavesNumber \div 2 >= leavesNumber
    THEN Res(t, NoBytes, NilErr, calls, TRUE)
    ELSE emptyAfterNext(
            ComputeEmptyLeavesSubTreeHash(t, leavesNumber \div 2, calls, failAt),
            failAt)

\* totalEle = 2, after both leaves are hashed
pairAfterRight(left, right, failAt) ==
    IF right.err # NilErr
    THEN Res(right.t, NoBytes, NilErr, right.calls, FALSE)
    ELSE HashRes(right.t,
            computeHashByTwoItems(left.hash, right.hash, NonLeafHashFn,
                                  right.calls + 1, failAt),
            right.calls + 1)

\* totalEle = 2, after the left leaf is hashed
pairAfterLeft(left, rightBlock, failAt) ==
    IF left.err # NilErr
    THEN Res(left.t, NoBytes, NilErr, left.calls, FALSE)
    ELSE pairAfterRight(left,
            computeHashOfOneItem(left.t, rightBlock, LeafHashFn, left.calls,
                                 failAt),
            failAt)

\* after both halves are hashed
halvesAfterLeft(rightRes, leftRes, failAt) ==
    IF leftRes.diverged THEN leftRes
    ELSE IF leftRes.err # NilErr
    THEN Res(leftRes.t, NoBytes, leftRes.err, leftRes.calls, FALSE)
    ELSE HashRes(leftRes.t,
            computeHashByTwoItems(leftRes.hash, rightRes.hash, NonLeafHashFn,
                                  leftRes.calls + 1, failAt),
            leftRes.calls + 1)

\* start and end count from 0, as in the code
RECURSIVE GenerateSMT(_, _, _, _, _, _)

\* after the right half is hashed
halvesAfterRight(rightRes, leftStart, leftEnd, blocks, failAt) ==
    IF rightRes.diverged THEN rightRes
    ELSE IF rightRes.err # NilErr
    THEN Res(rightRes.t, NoBytes, rightRes.err, rightRes.calls, FALSE)
    ELSE halvesAfterLeft(rightRes,
            GenerateSMT(rightRes.t, leftStart, leftEnd, blocks, rightRes.calls,
                        failAt),
            failAt)

\* the right half: an empty first block, or the recursion
rightHalf(t, rightStart, rightEnd, totalEle, blocks, calls, failAt) ==
    IF isEmptyBlock(blocks[rightStart + 1])
    THEN ComputeEmptyLeavesSubTreeHash(t, rightEnd - rightStart + 1, calls,
                                       failAt)
    ELSE IF rightEnd - rightStart + 1 >= totalEle
    THEN Res(t, NoBytes, NilErr, calls, TRUE)
    ELSE GenerateSMT(t, rightStart, rightEnd, blocks, calls, failAt)

GenerateSMT(t, start, end, blocks, calls, failAt) ==
    IF isEmptyBlock(blocks[start + 1])
    THEN ComputeEmptyLeavesSubTreeHash(t, (end - start) + 1, calls, failAt)
    ELSE IF (end - start) + 1 = 2
    THEN pairAfterLeft(
            computeHashOfOneItem(t, blocks[start + 1], LeafHashFn, calls, failAt),
            blocks[start + 2], failAt)
    ELSE halvesAfterRight(
            rightHalf(t, start + (((end - start) + 1) \div 2), end,
                      (end - start) + 1, blocks, calls, failAt),
            start, start + (((end - start) + 1) \div 2) - 1, blocks, failAt)

\* if err == nil { self.Root = root }
storeRoot(r) ==
    IF r.diverged \/ r.err # NilErr THEN r
    ELSE Res([r.t EXCEPT !.Root = r.hash], r.hash, r.err, r.calls, FALSE)

GenerateByTwoHashFunc(t, blocks, failAt) ==
    IF ~isPowerOfTwo(Len(blocks))
    THEN Res(t, NoBytes, ErrNotPowerOfTwo, 0, FALSE)
    ELSE storeRoot(GenerateSMT(t, 0, Len(blocks) - 1, blocks, 0, failAt))

GetRoot(t) == t.Root

(***************************************************************************)
(* State: one instance of the materializing builder, the result of the     *)
(* last call made on it, and what has happened to it so far.               *)
(***************************************************************************)
VARIABLES
    fullNodes, emptyTreeRootHash, emptyHash, treeHeight, countOfNonEmptyLeaves,
    ret,          \* the last call on the instance and what it returned
    generated,    \* a Generate call on the instance has returned nil
    genLeaves,    \* ... and these were its leaves
    genTotalSize, \* ... and its totalSize
    hashFailures, \* the Generate calls on the instance that met a hash failure
    retried,      \* Generate has run again on the instance after a hash failure
    rejected      \* Generate has refused its arguments on the (unbuilt) instance

\* one instance of the recursive builder
VARIABLES
    EmptyLeafHash, CachedAllLevelsHashOfEmptyLeaves, Root,
    rret,           \* the last call on it and what it returned
    rvHashFailures  \* the calls on it in which a hash use failed

\* Generate calls in flight on the materializing instance, one per caller
VARIABLES
    frame,         \* each caller's call: where it stands, its arguments, locals
    cerr,          \* what the last call to return has returned
    builds,        \* the calls that have appended to fullNodes
    overlapped,    \* a call has started while another was in flight
    concFailures   \* the hash uses that have failed

concAll == <<frame, cerr, builds, overlapped, concFailures>>

recVars == <<EmptyLeafHash, CachedAllLevelsHashOfEmptyLeaves, Root>>
recAll == <<recVars, rret, rvHashFailures>>

smtVars == <<fullNodes, emptyTreeRootHash, emptyHash, treeHeight,
             countOfNonEmptyLeaves>>
histVars == <<generated, genLeaves, genTotalSize, hashFailures, retried, rejected>>
smtAll == <<smtVars, ret, histVars>>

\* the SMT struct
Self ==
    [fullNodes |-> fullNodes, emptyTreeRootHash |-> emptyTreeRootHash,
     emptyHash |-> emptyHash, treeHeight |-> treeHeight,
     countOfNonEmptyLeaves |-> countOfNonEmptyLeaves]

SetSelf(s) ==
    /\ fullNodes' = s.fullNodes
    /\ emptyTreeRootHash' = s.emptyTreeRootHash
    /\ emptyHash' = s.emptyHash
    /\ treeHeight' = s.treeHeight
    /\ countOfNonEmptyLeaves' = s.countOfNonEmptyLeaves

BatchesOf(vals, n) == UNION {[1..k -> vals] : k \in 0..n}

LeafValues == {<<Byte(1)>>, <<Byte(2)>>}
LeafBatches == BatchesOf(LeafValues, MaxLeaves)
TotalSizes == 0..MaxTotalSize
EmptyHashes == {Digest("lh", <<>>), <<Byte(0)>>}
ArgErrs == {ErrNotPowerOfTwo, ErrTooManyLeaves}

Ret(op, err, argsValid, hashFault, leafNo, root, proofs) ==
    [op |-> op, err |-> err, argsValid |-> argsValid, hashFault |-> hashFault,
     leafNo |-> leafNo, root |-> root, proofs |-> proofs]

\* a use of the hash capability failed in a call that made `calls` uses
HashFault(calls, failAt) == failAt > 0 /\ calls >= failAt

ArgsValid(leaves, totalSize) ==
    isPowerOfTwo(totalSize) /\ Len(leaves) <= totalSize

InitSMT ==
    /\ \E eh \in EmptyHashes : 
          /\ fullNodes = NewSMT(eh).fullNodes
          /\ emptyTreeRootHash = NewSMT(eh).emptyTreeRootHash
          /\ emptyHash = NewSMT(eh).emptyHash
          /\ treeHeight = NewSMT(eh).treeHeight
          /\ countOfNonEmptyLeaves = NewSMT(eh).countOfNonEmptyLeaves
    /\ ret = Ret("NewSMT", NilErr, TRUE, FALSE, 0, NilBytes, <<>>)
    /\ generated = FALSE
    /\ genLeaves = <<>>
    /\ genTotalSize = 0
    /\ hashFailures = 0
    /\ retried = FALSE
    /\ rejected = FALSE

\* the caller drops the instance and constructs another
DoNewSMT ==
    /\ \E eh \in EmptyHashes : SetSelf(NewSMT(eh))
    /\ ret' = Ret("NewSMT", NilErr, TRUE, FALSE, 0, NilBytes, <<>>)
    /\ generated' = FALSE
    /\ genLeaves' = <<>>
    /\ genTotalSize' = 0
    /\ hashFailures' = 0
    /\ retried' = FALSE
    /\ rejected' = FALSE
    /\ UNCHANGED <<recAll, concAll>>

\* Generate on an instance whose levels are still empty
DoGenerateUnfilled ==
    /\ ~alreadyFilled(Self)
    /\ \E leaves \in LeafBatches, totalSize \in TotalSizes,
          failAt \in 0..(IF hashFailures < MaxHashFailures THEN MaxFailAt ELSE 0) :
          LET r == Generate(Self, leaves, totalSize, failAt)
          IN  /\ SetSelf(r.self)
              /\ ret' = Ret("Generate", r.err, ArgsValid(leaves, totalSize),
                            HashFault(r.calls, failAt), 0, NilBytes, <<>>)
              /\ generated' = (generated \/ r.err = NilErr)
              /\ genLeaves' = (IF r.err = NilErr THEN leaves ELSE genLeaves)
              /\ genTotalSize' = (IF r.err = NilErr THEN totalSize ELSE genTotalSize)
              /\ hashFailures' =
                    hashFailures + (IF HashFault(r.calls, failAt) THEN 1 ELSE 0)
              /\ retried' = (retried \/ (hashFailures > 0 /\ r.err \notin ArgErrs))
              /\ rejected' = (rejected \/ r.err \in ArgErrs)
    /\ UNCHANGED <<recAll, concAll>>

\* Generate on an instance that holds levels: the first statement returns,
\* before any argument is read
DoGenerateFilled ==
    /\ alreadyFilled(Self)
    /\ \E leaves \in BatchesOf(LeafValues, 1), totalSize \in TotalSizes :
          LET r == Generate(Self, leaves, totalSize, 0)
          IN  /\ SetSelf(r.self)
              /\ ret' = Ret("Generate", r.err, ArgsValid(leaves, totalSize),
                            FALSE, 0, NilBytes, <<>>)
              /\ generated' = (generated \/ r.err = NilErr)
              /\ genLeaves' = (IF r.err = NilErr THEN leaves ELSE genLeaves)
              /\ genTotalSize' = (IF r.err = NilErr THEN totalSize ELSE genTotalSize)
              /\ UNCHANGED <<hashFailures, retried, rejected>>
    /\ UNCHANGED <<recAll, concAll>>

DoRootHash ==
    /\ ret' = Ret("RootHash", NilErr, TRUE, FALSE, 0, RootHash(Self), <<>>)
    /\ UNCHANGED <<smtVars, histVars, recAll, concAll>>

DoGetMerkleProof ==
    /\ \E leafNo \in 0..MaxLeaves :
          LET r == GetMerkleProof(Self, leafNo)
          IN  ret' = Ret("GetMerkleProof", r.err, TRUE, FALSE, leafNo, NilBytes,
                        r.proofs)
    /\ UNCHANGED <<smtVars, histVars, recAll, concAll>>

(***************************************************************************)
(* The recursive builder's instance.                                       *)
(***************************************************************************)
\* batches of at most RvMaxLen blocks
RvMaxLen == 4

RecSelf ==
    [EmptyLeafHash |-> EmptyLeafHash,
     CachedAllLevelsHashOfEmptyLeaves |-> CachedAllLevelsHashOfEmptyLeaves,
     Root |-> Root]

SetRecSelf(t) ==
    /\ EmptyLeafHash' = t.EmptyLeafHash
    /\ CachedAllLevelsHashOfEmptyLeaves' = t.CachedAllLevelsHashOfEmptyLeaves
    /\ Root' = t.Root

BlockValues == {<<>>, <<Byte(1)>>}
BlockBatches == BatchesOf(BlockValues, RvMaxLen)

\* blocks: the batch of a call that stored a Root (else <<>>); n: its length
RRet(op, blocks, n, err, hashFault, diverged, stored) ==
    [op |-> op, blocks |-> blocks, n |-> n, err |-> err,
     hashFault |-> hashFault, diverged |-> diverged, stored |-> stored]

InitRec ==
    /\ EmptyLeafHash = NewRecSMT.EmptyLeafHash
    /\ CachedAllLevelsHashOfEmptyLeaves = NewRecSMT.CachedAllLevelsHashOfEmptyLeaves
    /\ Root = NewRecSMT.Root
    /\ rret = RRet("NewSMT", <<>>, 0, NilErr, FALSE, FALSE, FALSE)
    /\ rvHashFailures = 0

\* the call assigned self.Root
Stored(r) == ~r.diverged /\ r.err = NilErr

\* the caller drops the instance (or starts the program again) and makes another
DoNewRecSMT ==
    /\ SetRecSelf(NewRecSMT)
    /\ rret' = RRet("NewSMT", <<>>, 0, NilErr, FALSE, FALSE, FALSE)
    /\ rvHashFailures' = 0
    /\ UNCHANGED <<smtAll, concAll>>

\* a call that never returns ends the program: the instance is lost with it
Returned(r, blocks, failAt) ==
    /\ IF r.diverged THEN UNCHANGED recVars ELSE SetRecSelf(r.t)
    /\ rret' = RRet("GenerateByTwoHashFunc",
                    IF Stored(r) THEN blocks ELSE <<>>, Len(blocks),
                    r.err, HashFault(r.calls, failAt), r.diverged, Stored(r))
    /\ rvHashFailures' =
          rvHashFailures + (IF HashFault(r.calls, failAt) THEN 1 ELSE 0)

DoGenerateByTwoHashFunc ==
    /\ ~rret.diverged
    /\ \E blocks \in BlockBatches,
          failAt \in 0..(IF rvHashFailures < MaxHashFailures THEN MaxFailAt ELSE 0) :
          Returned(GenerateByTwoHashFunc(RecSelf, blocks, failAt), blocks, failAt)
    /\ UNCHANGED <<smtAll, concAll>>

DoGetRoot ==
    /\ ~rret.diverged
    /\ rret' = RRet("GetRoot", <<>>, 0, NilErr, FALSE, FALSE, FALSE)
    /\ UNCHANGED <<recVars, rvHashFailures, smtAll, concAll>>

(***************************************************************************)
(* Generate calls racing on one instance: each caller runs Generate one    *)
(* statement at a time.  The steps are the already-built check (line 38),  *)
(* the argument checks with the two field writes (41-49), each turn of the *)
(* cache loop (96-102), the append of level 0 (61-65) and each             *)
(* computeNodesAt (116-138).  A use of the hash capability is one atomic   *)
(* step here, and so is an append.                                         *)
(***************************************************************************)
\* their totalSize is in 0..MaxConcTotalSize
MaxConcTotalSize == 2
\* their batches hold at most MaxConcLeaves leaves
MaxConcLeaves == 2

\* two callers, each making call after call: enough for calls to overlap
Callers == {"c1", "c2"}
ConcBatches == BatchesOf({<<Byte(1)>>}, MaxConcLeaves)

\* no call in flight: the locals of a call are gone when it returns
NoFrame ==
    [pc |-> "idle", leaves |-> <<>>, totalSize |-> 0, i |-> 0,
     lastLevelHash |-> NoBytes, maxHeight |-> 0, appended |-> FALSE]

InFlight(p) == frame[p].pc \notin {"idle", "panicked"}

InitConc ==
    /\ frame = [p \in Callers |-> NoFrame]
    /\ cerr = NilErr
    /\ builds = 0
    /\ overlapped = FALSE
    /\ concFailures = 0

\* an unrecovered panic ends the program
NoPanic == \A q \in Callers : frame[q].pc # "panicked"

At(p, label) == frame[p].pc = label /\ NoPanic

\* the call returns err
Return(p, err) ==
    /\ frame' = [frame EXCEPT ![p] = NoFrame]
    /\ cerr' = err

\* the call goes on with other locals
Goto(p, f) ==
    /\ frame' = [frame EXCEPT ![p] = f]
    /\ UNCHANGED cerr

\* the hash uses that may fail in a step of at most n uses
FailAts(n) == 0..(IF concFailures < MaxHashFailures THEN n ELSE 0)

CallGenerate(p) ==
    /\ At(p, "idle")
    /\ \E leaves \in ConcBatches, totalSize \in 0..MaxConcTotalSize :
          Goto(p, [NoFrame EXCEPT !.pc = "check", !.leaves = leaves,
                                  !.totalSize = totalSize])
    /\ overlapped' = (overlapped \/ \E q \in Callers \ {p} : InFlight(q))
    /\ UNCHANGED <<smtAll, recAll, builds, concFailures>>

\* if len(self.fullNodes) != 0 { return errors.New(...) }
CheckFilled(p) ==
    /\ At(p, "check")
    /\ IF alreadyFilled(Self)
       THEN Return(p, ErrFilled)
       ELSE Goto(p, [frame[p] EXCEPT !.pc = "validate"])
    /\ UNCHANGED <<smtAll, recAll, builds, overlapped, concFailures>>

\* the argument checks, the writes of treeHeight and countOfNonEmptyLeaves,
\* maxEmtySubTreeHeight, and the start of computeEmptyLeavesSubTreeHash
Validate(p) ==
    /\ At(p, "validate")
    /\ IF ~isPowerOfTwo(frame[p].totalSize)
       THEN Return(p, ErrNotPowerOfTwo) /\ UNCHANGED smtVars
       ELSE IF tooManyLeaves(Len(frame[p].leaves), frame[p].totalSize)
       THEN Return(p, ErrTooManyLeaves) /\ UNCHANGED smtVars
       ELSE /\ treeHeight' = logBaseTwo(frame[p].totalSize) + 1
            /\ countOfNonEmptyLeaves' = Len(frame[p].leaves)
            /\ Goto(p, [frame[p] EXCEPT
                  !.pc = "cache",
                  !.maxHeight = maxEmtySubTreeHeight(
                                    frame[p].totalSize - Len(frame[p].leaves)),
                  !.lastLevelHash = emptyHash,
                  !.i = 1])
            /\ UNCHANGED <<fullNodes, emptyTreeRootHash, emptyHash>>
    /\ UNCHANGED <<ret, histVars, recAll, builds, overlapped, concFailures>>

\* what one turn of the loop of computeEmptyLeavesSubTreeHash did
CacheTurnDone(p, r) ==
    IF r.err # NilErr
    THEN /\ Return(p, r.err)
         /\ concFailures' = concFailures + 1
         /\ UNCHANGED emptyTreeRootHash
    ELSE /\ emptyTreeRootHash' = Append(emptyTreeRootHash, r.hash)
         /\ Goto(p, [frame[p] EXCEPT !.lastLevelHash = r.hash, !.i = @ + 1])
         /\ UNCHANGED concFailures

\* one turn of the loop of computeEmptyLeavesSubTreeHash
CacheTurn(p) ==
    /\ At(p, "cache")
    /\ IF frame[p].i >= frame[p].maxHeight
       THEN /\ Goto(p, [frame[p] EXCEPT !.pc = "level0"])
            /\ UNCHANGED <<emptyTreeRootHash, concFailures>>
       ELSE \E failAt \in FailAts(1) :
               CacheTurnDone(p, parentHash(frame[p].lastLevelHash,
                                           frame[p].lastLevelHash, 1, failAt))
    /\ UNCHANGED <<fullNodes, emptyHash, treeHeight, countOfNonEmptyLeaves, ret,
                   histVars, recAll, builds, overlapped>>

\* the call appends a level, its first or a further one
Appended(p, f) ==
    /\ Goto(p, [f EXCEPT !.appended = TRUE])
    /\ builds' = builds + (IF frame[p].appended THEN 0 ELSE 1)

\* self.fullNodes = append(self.fullNodes, hashes), and the start of the loop
\* of computeAllLevelNodes
AppendLeaves(p) ==
    /\ At(p, "level0")
    /\ fullNodes' = Append(fullNodes, frame[p].leaves)
    /\ Appended(p, [frame[p] EXCEPT !.pc = "levels", !.i = treeHeight])
    /\ UNCHANGED <<emptyTreeRootHash, emptyHash, treeHeight, countOfNonEmptyLeaves,
                   ret, histVars, recAll, overlapped, concFailures>>

\* computeNodesAt(level) indexes outside fullNodes or emptyTreeRootHash
nodesAtPanics(self, level) ==
    \/ self.treeHeight - 1 - level < 0
    \/ self.treeHeight - 1 - level >= Len(self.fullNodes)
    \/ /\ Len(self.fullNodes[(self.treeHeight - 1 - level) + 1]) % 2 # 0
       /\ self.treeHeight - 1 - level >= Len(self.emptyTreeRootHash)

\* what one computeNodesAt did
NodesAtDone(p, r) ==
    IF r.err # NilErr
    THEN /\ Return(p, r.err)
         /\ concFailures' = concFailures + 1
         /\ UNCHANGED <<fullNodes, builds>>
    ELSE /\ fullNodes' = r.self.fullNodes
         /\ Appended(p, [frame[p] EXCEPT !.i = @ - 1])
         /\ UNCHANGED concFailures

\* one turn of the loop of computeAllLevelNodes
LevelTurn(p) ==
    /\ At(p, "levels")
    /\ IF frame[p].i <= 1
       THEN /\ Return(p, NilErr)
            /\ UNCHANGED <<fullNodes, builds, concFailures>>
       ELSE IF nodesAtPanics(Self, frame[p].i - 1)
       THEN /\ Goto(p, [frame[p] EXCEPT !.pc = "panicked"])
            /\ UNCHANGED <<fullNodes, builds, concFailures>>
       ELSE \E failAt \in FailAts(MaxFailAt) :
               NodesAtDone(p, computeNodesAt(Self, frame[p].i - 1, 0, failAt))
    /\ UNCHANGED <<emptyTreeRootHash, emptyHash, treeHeight, countOfNonEmptyLeaves,
                   ret, histVars, recAll, overlapped>>

NextConc ==
    \E p \in Callers :
        \/ CallGenerate(p)
        \/ CheckFilled(p)
        \/ Validate(p)
        \/ CacheTurn(p)
        \/ AppendLeaves(p)
        \/ LevelTurn(p)

vars == <<smtAll, recAll, concAll>>

Init == InitSMT /\ InitRec /\ InitConc

NextRec ==
    \/ DoNewRecSMT
    \/ DoGenerateByTwoHashFunc
    \/ DoGetRoot

SpecRec == Init /\ [][NextRec]_vars

Next ==
    \/ DoNewSMT
    \/ DoGenerateUnfilled
    \/ DoGenerateFilled
    \/ DoRootHash
    \/ DoGetMerkleProof

Spec == Init /\ [][Next]_vars

SpecConc == Init /\ [][NextConc]_vars

\* C8 as claimed: however the Generate calls on one instance interleave, at
\* most one of them gets past the already-built check and appends levels,
\* and fullNodes never holds more than treeHeight levels.
C8_AtMostOneBuild == builds <= 1 /\ Len(fullNodes) <= treeHeight

\* C8, amended: the same, as long as the caller has serialized the calls (no
\* call has started while another was in flight).
C8_AtMostOneBuildWhenSerialized ==
    ~overlapped => (builds <= 1 /\ Len(fullNodes) <= treeHeight)

\* a second call, made after the first had returned, refused on the built
\* instance
C8_Witness ==
    /\ ~overlapped /\ builds = 1 /\ Len(fullNodes) = 2 /\ treeHeight = 2
    /\ \A p \in Callers : frame[p].pc = "idle"
    /\ cerr = ErrFilled

(***************************************************************************)
(* What the claims about the materializing builder speak of.               *)
(***************************************************************************)
\* combine(left, right) of the instance's capability
Combine(a, b) == Digest(HashFunc, a \o b)

\* e combined with itself n times: the root of an empty subtree of height n
RECURSIVE SelfCombine(_, _)
SelfCombine(e, n) ==
    IF n = 0 THEN e
    ELSE Combine(SelfCombine(e, n - 1), SelfCombine(e, n - 1))

\* totalSize slots: the batch, then the empty leaf hash
Pad(leaves, totalSize, e) ==
    [i \in 1..totalSize |-> IF i <= Len(leaves) THEN leaves[i] ELSE e]

\* the root of the complete balanced binary tree over the slots
RECURSIVE BalancedRoot(_)
BalancedRoot(slots) ==
    IF Len(slots) = 1 THEN slots[1]
    ELSE LET half == Len(slots) \div 2
         IN  Combine(BalancedRoot(SubSeq(slots, 1, half)),
                     BalancedRoot(SubSeq(slots, half + 1, Len(slots))))

\* the verifier's replay of a proof from a leaf
RECURSIVE Replay(_, _)
Replay(current, proofs) ==
    IF proofs = <<>> THEN current
    ELSE Replay(IF Head(proofs).Left
                THEN Combine(Head(proofs).Hash, current)
                ELSE Combine(current, Head(proofs).Hash),
                Tail(proofs))

\* C1: after a successful Generate of n >= 1 leaves, GetMerkleProof(k) for
\* 0 <= k < n returns without error a proof of treeHeight-1 entries, and the
\* replay of that proof from leaves[k] gives RootHash().
C1_ProofRoundTrip ==
    (generated /\ ret.op = "GetMerkleProof" /\ ret.leafNo < Len(genLeaves))
    => /\ ret.err = NilErr
       /\ Len(ret.proofs) = treeHeight - 1
       /\ Replay(genLeaves[ret.leafNo + 1], ret.proofs) = RootHash(Self)

\* the proof of leaf C in the batch [A, B, C] built toward 4 slots: first the
\* empty leaf hash on the right, then a left sibling
C1_Witness ==
    /\ generated /\ ret.op = "GetMerkleProof" /\ ret.leafNo = 2
    /\ Len(genLeaves) = 3 /\ genTotalSize = 4
    /\ Len(ret.proofs) = 2
    /\ ret.proofs[1] = ProofNode(emptyHash, FALSE)
    /\ ret.proofs[2].Left

C3_ImmutableOnceBuilt ==
    [][(generated /\ ret'.op # "NewSMT")
         => /\ UNCHANGED smtVars
            /\ (ret'.op = "Generate" => ret'.err # NilErr)
            /\ RootHash(Self)' = RootHash(Self)]_vars

\* a second Generate, with valid arguments, refused on a built instance
C3_Witness ==
    /\ generated /\ ret.op = "Generate" /\ ret.err = ErrFilled /\ ret.argsValid
    /\ Len(fullNodes) = 3

CacheRecurrence ==
    /\ emptyTreeRootHash[1] = emptyHash
    /\ \A h \in 2..Len(emptyTreeRootHash) :
          emptyTreeRootHash[h]
            = Combine(emptyTreeRootHash[h - 1], emptyTreeRootHash[h - 1])

\* max(1, floor(log2(totalSize - len(leaves))) + 1)
CacheEntries(missing) == IF missing = 0 THEN 1 ELSE logBaseTwo(missing) + 1

CacheSized ==
    generated =>
        Len(emptyTreeRootHash) = CacheEntries(genTotalSize - Len(genLeaves))

\* C7 as claimed: in every state that Generate calls reach, failed and
\* retried calls included, the cache obeys the recurrence, and after a
\* successful build it holds max(1, floor(log2(missing)) + 1) entries.
C7_CacheInvariantAlways == CacheRecurrence /\ CacheSized

\* C7, amended: the same, in every state in which Generate has not run again,
\* past its argument checks, on an instance that met a hash failure.
C7_CacheInvariantUnlessRetried == ~retried => (CacheRecurrence /\ CacheSized)

\* a hash failure has left a partly extended cache on an unbuilt instance
C7_Witness ==
    /\ hashFailures = 1 /\ ~retried /\ ~generated
    /\ Len(emptyTreeRootHash) = 3 /\ Len(fullNodes) = 0

(***************************************************************************)
(* What the claims about the recursive builder speak of.                   *)
(***************************************************************************)
\* leafHash(empty leaf)
EmptyLeafDigest == Digest(LeafHashFn, <<>>)

\* the Root a fresh instance stores for a batch when no hash use fails
FreshRoot(blocks) == GetRoot(GenerateByTwoHashFunc(NewRecSMT, blocks, 0).t)

\* the last call was GenerateByTwoHashFunc on a power-of-two batch, it
\* returned, and no hash use has failed on the instance
RecCallReturned ==
    /\ rret.op = "GenerateByTwoHashFunc"
    /\ isPowerOfTwo(rret.n)
    /\ ~rret.diverged
    /\ rvHashFailures = 0

\* C5: a failure of the hash capability during a build is never reported as
\* success: Generate returns a non-nil error, and so does
\* GenerateByTwoHashFunc, which then stores no Root.
C5_HashFailureIsReported ==
    /\ (ret.op = "Generate" /\ ret.hashFault) => ret.err # NilErr
    /\ (rret.op = "GenerateByTwoHashFunc" /\ rret.hashFault /\ ~rret.diverged)
          => (rret.err # NilErr /\ ~rret.stored)

\* C6: on every batch whose length is a power of two, length 1 included,
\* GenerateByTwoHashFunc returns: every recursive call is on a shorter range.
C6_RecursionTerminates ==
    (rret.op = "GenerateByTwoHashFunc" /\ isPowerOfTwo(rret.n))
        => ~rret.diverged

\* the batch with every range the code takes for empty (the batch, or a right
\* half that GenerateSMT reaches, whose first block is empty) emptied
RECURSIVE Emptied(_)
Emptied(blocks) ==
    IF blocks[1] = <<>> THEN [i \in 1..Len(blocks) |-> <<>>]
    ELSE IF Len(blocks) <= 2 THEN blocks
    ELSE Emptied(SubSeq(blocks, 1, Len(blocks) \div 2))
           \o Emptied(SubSeq(blocks, Len(blocks) \div 2 + 1, Len(blocks)))

\* C9: only the first block of a range is looked at: a batch whose first
\* block is empty gets the empty-subtree hash of its length, a right half
\* whose first block is empty gets the empty-subtree hash of the half, and
\* two batches that differ only in blocks behind such an empty first block
\* get the same root.
C9_OnlyFirstBlockIsLookedAt ==
    (RecCallReturned /\ rret.n >= 2)
    => /\ rret.stored
       /\ (rret.blocks[1] = <<>>
             => Root = SelfCombine(EmptyLeafDigest, logBaseTwo(rret.n)))
       /\ (rret.n >= 4 /\ rret.blocks[1] # <<>>
                       /\ rret.blocks[rret.n \div 2 + 1] = <<>>
             => Root = Combine(FreshRoot(SubSeq(rret.blocks, 1, rret.n \div 2)),
                               SelfCombine(EmptyLeafDigest,
                                           logBaseTwo(rret.n \div 2))))
       /\ \A other \in BlockBatches :
             (Len(other) = rret.n /\ Emptied(other) = Emptied(rret.blocks))
                => FreshRoot(other) = Root

\* a right half with an empty first block and a non-empty second one
C9_Witness ==
    /\ RecCallReturned /\ rret.n = 4 /\ rret.stored
    /\ rret.blocks[1] # <<>> /\ rret.blocks[3] = <<>> /\ rret.blocks[4] # <<>>
    /\ Root = FreshRoot([rret.blocks EXCEPT ![4] = <<>>])

\* the blocks are n non-empty ones followed by empty ones only
TrailingEmpty(blocks) ==
    \A i \in 1..Len(blocks) : \A j \in 1..Len(blocks) :
        (i < j /\ blocks[i] = <<>>) => blocks[j] = <<>>

NonEmptyCount(blocks) == Cardinality({i \in 1..Len(blocks) : blocks[i] # <<>>})

\* C10: for a power-of-two batch of at least 2 blocks whose empty blocks
\* trail, the Root the recursive builder stores is RootHash() of the
\* materializing builder made with emptyHash = leafHash(empty leaf) and run
\* over the leaf hashes of the non-empty blocks with totalSize = the length.
C10_BuildersAgree ==
    (RecCallReturned /\ rret.n >= 2 /\ rret.stored /\ TrailingEmpty(rret.blocks))
    => Root = RootHash(
                Generate(NewSMT(EmptyLeafDigest),
                         [i \in 1..NonEmptyCount(rret.blocks)
                             |-> Digest(LeafHashFn, rret.blocks[i])],
                         rret.n, 0).self)

\* three blocks and one trailing empty block
C10_Witness ==
    /\ RecCallReturned /\ rret.n = 4 /\ rret.stored
    /\ TrailingEmpty(rret.blocks) /\ NonEmptyCount(rret.blocks) = 3

====
